---------------------------- MODULE Spec2Model ----------------------------
(***************************************************************************)
(* Model of dcmri/lib.py: the contrast-agent lookup tables (ca_conc,       *)
(* ca_std_dose, relaxivity, T1) and the step-injection flux generator      *)
(* influx_step.                                                            *)
(*                                                                         *)
(* The library is stateless: a behaviour of the model is one call.  Init   *)
(* draws the function and its arguments, the function's action applies it  *)
(* and stores the outcome (a returned value or a raised exception).        *)
(*                                                                         *)
(* Python floats are modelled as exact rationals [num, den] in lowest      *)
(* terms with den > 0; all inputs of the model are short decimals, for     *)
(* which the comparisons the code makes agree with the exact ones.         *)
(***************************************************************************)
EXTENDS Integers, Sequences, FiniteSets, TLC

VARIABLES pc, fn, args, result

vars == <<pc, fn, args, result>>

\* Longest generated time array (the documented 14-point grid is added to them).
MaxLen == 3

(***************************************************************************)
(* Numbers                                                                 *)
(***************************************************************************)
Abs(n) == IF n < 0 THEN -n ELSE n

RECURSIVE GCD(_, _)
GCD(a, b) == IF b = 0 THEN a ELSE GCD(b, a % b)

\* The float n/d (d # 0).
Rat(n, d) ==
    LET g == GCD(Abs(n), Abs(d))
        s == IF d < 0 THEN -1 ELSE 1
    IN  [num |-> (s * n) \div g, den |-> (s * d) \div g]

Zero == Rat(0, 1)

RAdd(a, b) == Rat(a.num * b.den + b.num * a.den, a.den * b.den)
RSub(a, b) == Rat(a.num * b.den - b.num * a.den, a.den * b.den)
RMul(a, b) == Rat(a.num * b.num, a.den * b.den)
\* a / b for b # 0 (the callers raise ZeroDivisionError otherwise).
RDiv(a, b) == Rat(a.num * b.den, a.den * b.num)
RLt(a, b) == a.num * b.den < b.num * a.den
RLe(a, b) == a.num * b.den <= b.num * a.den

\* math.floor
Floor(a) == a.num \div a.den

Digit == <<"0", "1", "2", "3", "4", "5", "6", "7", "8", "9">>

RECURSIVE IntStr(_)
IntStr(n) == IF n < 10 THEN Digit[n + 1] ELSE IntStr(n \div 10) \o Digit[(n % 10) + 1]

\* str() of a float with one decimal: str(3.0) = "3.0", str(1.5) = "1.5".
StrFloat(a) ==
    LET tenths == Abs((10 * a.num) \div a.den)
    IN  (IF a.num < 0 THEN "-" ELSE "")
            \o IntStr(tenths \div 10) \o "." \o IntStr(tenths % 10)

(***************************************************************************)
(* Outcome of a call                                                       *)
(***************************************************************************)
NoResult == [kind |-> "none", exc |-> "", msg |-> "", value |-> <<>>]
Return(v) == [kind |-> "return", exc |-> "", msg |-> "", value |-> v]
Raise(e, m) == [kind |-> "raise", exc |-> e, msg |-> m, value |-> <<>>]

IsReturn(r) == r.kind = "return"
IsRaise(r, e) == r.kind = "raise" /\ r.exc = e

(***************************************************************************)
(* ca_conc, ca_std_dose                                                    *)
(***************************************************************************)
\* Mutant: a miss falls back to the most common concentration.
ca_conc_default(agent) ==
    IF agent = "gadoxetate" THEN Return(Rat(25, 100))
    ELSE IF agent = "gadobutrol" THEN Return(Rat(1, 1))
    ELSE Return(Rat(5, 10))

ca_conc(agent) ==
    IF agent = "gadoxetate" THEN Return(Rat(25, 100))
    ELSE IF agent = "gadobutrol" THEN Return(Rat(1, 1))
    ELSE IF agent \in {"gadopentetate", "gadobenate", "gadodiamide",
                       "gadoterate", "gadoteridol", "gadopiclenol"}
         THEN Return(Rat(5, 10))
    ELSE Raise("ValueError", "No concentration data for contrast agent " \o agent)

\* Mutant: gadopiclenol missing from the dose table.
ca_std_dose_no_gadopiclenol(agent) ==
    IF agent = "gadoxetate" THEN Return(Rat(1, 10))
    ELSE IF agent = "gadobutrol" THEN Return(Rat(1, 10))
    ELSE IF agent \in {"gadopentetate", "gadobenate", "gadodiamide",
                       "gadoterate", "gadoteridol"}
         THEN Return(Rat(2, 10))
    ELSE Raise("ValueError", "No dosage data for contrast agent " \o agent)

ca_std_dose(agent) ==
    IF agent = "gadoxetate" THEN Return(Rat(1, 10))
    ELSE IF agent = "gadobutrol" THEN Return(Rat(1, 10))
    ELSE IF agent = "gadopiclenol" THEN Return(Rat(1, 10))
    ELSE IF agent \in {"gadopentetate", "gadobenate", "gadodiamide",
                       "gadoterate", "gadoteridol"}
         THEN Return(Rat(2, 10))
    ELSE Raise("ValueError", "No dosage data for contrast agent " \o agent)

\* The agent names the two functions compare against.
ConcKeys ==
    {"gadoxetate", "gadobutrol", "gadopentetate", "gadobenate", "gadodiamide",
     "gadoterate", "gadoteridol", "gadopiclenol"}

DoseKeys ==
    {"gadoxetate", "gadobutrol", "gadopiclenol", "gadopentetate", "gadobenate",
     "gadodiamide", "gadoterate", "gadoteridol"}

(***************************************************************************)
(* relaxivity                                                              *)
(***************************************************************************)
\* A dict keyed by field strength, written as <<key, value>> pairs in tenths
\* (0.4: 3.8 is <<4, 38>>).
FieldTable(s) ==
    [k \in {Rat(s[i][1], 10) : i \in DOMAIN s} |->
        LET i == CHOOSE j \in DOMAIN s : Rat(s[j][1], 10) = k
        IN  Rat(s[i][2], 10)]

rel ==
    [T1 |->
      [plasma |->
        [gadopentetate   |-> FieldTable(<< <<4, 38>>, <<15, 41>>, <<30, 37>>, <<40, 38>> >>),
         gadobutrol      |-> FieldTable(<< <<4, 61>>, <<15, 52>>, <<30, 50>>, <<40, 47>> >>),
         gadoteridol     |-> FieldTable(<< <<4, 48>>, <<15, 41>>, <<30, 37>>, <<40, 37>> >>),
         gadobenade      |-> FieldTable(<< <<4, 92>>, <<15, 63>>, <<30, 55>>, <<40, 52>> >>),
         gadoterate      |-> FieldTable(<< <<4, 43>>, <<15, 36>>, <<30, 35>>, <<40, 33>> >>),
         gadodiamide     |-> FieldTable(<< <<4, 44>>, <<15, 43>>, <<30, 40>>, <<40, 39>> >>),
         mangafodipir    |-> FieldTable(<< <<4, 36>>, <<15, 36>>, <<30, 27>>, <<40, 22>> >>),
         gadoversetamide |-> FieldTable(<< <<4, 57>>, <<15, 47>>, <<30, 45>>, <<40, 44>> >>),
         ferucarbotran   |-> FieldTable(<< <<4, 150>>, <<15, 74>>, <<30, 33>>, <<40, 17>> >>),
         ferumoxide      |-> FieldTable(<< <<15, 45>>, <<30, 27>>, <<40, 12>> >>),
         gadoxetate      |-> FieldTable(<< <<4, 87>>, <<15, 81>>, <<30, 64>>, <<40, 64>>,
                                           <<70, 62>>, <<90, 61>> >>)],
       hepatocytes |->
        [gadoxetate      |-> FieldTable(<< <<15, 146>>, <<30, 98>>, <<40, 76>>,
                                           <<70, 60>>, <<90, 61>> >>)]]]

\* rel[type][tissue][agent][field] finds an entry (no KeyError at any level).
HasEntry(field, tissue, agent, type) ==
    /\ type \in DOMAIN rel
    /\ tissue \in DOMAIN rel[type]
    /\ agent \in DOMAIN rel[type][tissue]
    /\ field \in DOMAIN rel[type][tissue][agent]

NoRelaxivityData(field_strength, agent) ==
    Raise("ValueError",
          "No relaxivity data for " \o agent \o " at " \o StrFloat(field_strength) \o " T.")

\* Mutant: only a missing field strength is translated, a missing type, tissue
\* or agent surfaces as the KeyError of the dict.
relaxivity_layered(field_strength, tissue, agent, type) ==
    LET field == Rat(Floor(field_strength), 1)
    IN  IF HasEntry(field, tissue, agent, type)
        THEN Return(RMul(Rat(1000, 1), rel[type][tissue][agent][field]))
        ELSE IF type \in DOMAIN rel /\ tissue \in DOMAIN rel[type]
                /\ agent \in DOMAIN rel[type][tissue]
             THEN NoRelaxivityData(field_strength, agent)
             ELSE Raise("KeyError", IF type \notin DOMAIN rel THEN type
                                    ELSE IF tissue \notin DOMAIN rel[type] THEN tissue
                                    ELSE agent)

relaxivity(field_strength, tissue, agent, type) ==
    LET field == Rat(Floor(field_strength), 1)
    IN  IF HasEntry(field, tissue, agent, type)
        THEN Return(RMul(Rat(1000, 1), rel[type][tissue][agent][field]))
        ELSE NoRelaxivityData(field_strength, agent)

(***************************************************************************)
(* T1                                                                      *)
(***************************************************************************)
\* The Hct argument: a float, or a value that is no number.
HctFloat(r) == [tag |-> "float", v |-> r]
HctStr == [tag |-> "str", v |-> Zero]
DefaultHct == HctFloat(Rat(45, 100))

\* The dict T1val, for a float Hct whose blood entry can be computed.
T1val(Hct) ==
    [blood  |-> (Rat(1, 1) :> Rat(1480, 1000))
             @@ (Rat(3, 1) :> RDiv(Rat(1, 1),
                                   RAdd(RMul(Rat(52, 100), Hct.v), Rat(38, 100)))),
     liver  |-> (Rat(1, 1) :> Rat(602, 1000))
             @@ (Rat(3, 1) :> Rat(752, 1000))
             @@ (Rat(4, 1) :> RDiv(Rat(1, 1), Rat(1281, 1000)))
             @@ (Rat(7, 1) :> RDiv(Rat(1, 1), Rat(1109, 1000)))
             @@ (Rat(9, 1) :> RDiv(Rat(1, 1), Rat(920, 1000))),
     kidney |-> (Rat(1, 1) :> RDiv(RDiv(Rat(1024 + 1272, 1), Rat(2, 1)), Rat(1000, 1)))
             @@ (Rat(3, 1) :> RDiv(RDiv(Rat(1399 + 1685, 1), Rat(2, 1)), Rat(1000, 1)))]

\* The dict literal is evaluated in full, outside the try, before the lookup.
T1(field_strength, tissue, Hct) ==
    IF Hct.tag # "float"
    THEN Raise("TypeError", "can't multiply sequence by non-int of type 'float'")
    ELSE IF RAdd(RMul(Rat(52, 100), Hct.v), Rat(38, 100)) = Zero
    THEN Raise("ZeroDivisionError", "float division by zero")
    ELSE LET field == Rat(Floor(field_strength), 1)
         IN  IF tissue \in DOMAIN T1val(Hct) /\ field \in DOMAIN T1val(Hct)[tissue]
             THEN Return(T1val(Hct)[tissue][field])
             ELSE Raise("ValueError",
                        "No T1 values for " \o tissue \o " at "
                            \o StrFloat(field_strength) \o " T.")

(***************************************************************************)
(* influx_step                                                             *)
(***************************************************************************)
\* np.arange(start, stop, step) for step > 0.
RECURSIVE Arange(_, _, _)
Arange(start, stop, step) ==
    IF RLt(start, stop) THEN <<start>> \o Arange(RAdd(start, step), stop, step)
    ELSE <<>>

\* t[1:] - t[:-1]
Diffs(t) == [i \in 1..(Len(t) - 1) |-> RSub(t[i + 1], t[i])]

\* np.amin of a non-empty array.
Amin(a) == CHOOSE x \in {a[i] : i \in DOMAIN a} : \A j \in DOMAIN a : RLe(x, a[j])

\* duration = weight*dose/rate, for rate # 0.
Duration(weight, dose, rate) == RDiv(RMul(weight, dose), rate)

\* dt = np.amin(t[1:]-t[:-1]), for t of two samples or more.
MinStep(t) == Amin(Diffs(t))

\* Mutant: the timings are checked whatever the dose.
CheckTimings_any_dose(dose, duration, dt) ==
    IF duration = Zero
    THEN Raise("ValueError", "The injection duration is zero.")
    ELSE IF RLe(duration, dt)
    THEN Raise("TypeError", "ufunc 'add' did not contain a loop with signature matching types")
    ELSE NoResult

\* "Check consistency of timings": the exception raised, or NoResult.  Building
\* the message of the second check adds a str and a numpy float: a TypeError.
CheckTimings(dose, duration, dt) ==
    IF RLt(Zero, dose)
    THEN IF duration = Zero
         THEN Raise("ValueError", "The injection duration is zero.")
         ELSE IF RLe(duration, dt)
         THEN Raise("TypeError", "ufunc 'add' did not contain a loop with signature matching types")
         ELSE NoResult
    ELSE NoResult

\* Mutant: the start of the injection is included in the pulse.
BuildFlux_closed(t, conc, rate, t0, duration) ==
    Return([i \in 1..Len(t) |->
              IF RLe(t0, t[i]) /\ RLt(t[i], RAdd(t0, duration))
              THEN RMul(conc, rate) ELSE Zero])

\* "Build flux"
BuildFlux(t, conc, rate, t0, duration) ==
    Return([i \in 1..Len(t) |->
              IF RLt(t0, t[i]) /\ RLt(t[i], RAdd(t0, duration))
              THEN RMul(conc, rate) ELSE Zero])

influx_step(t, weight, conc, dose, rate, t0) ==
    IF rate = Zero
    THEN Raise("ZeroDivisionError", "float division by zero")
    ELSE IF Len(t) < 2
    THEN Raise("ValueError",
               "zero-size array to reduction operation minimum which has no identity")
    ELSE LET duration == Duration(weight, dose, rate)
             dt == MinStep(t)
             check == CheckTimings(dose, duration, dt)
         IN  IF check.kind = "raise" THEN check
             ELSE BuildFlux(t, conc, rate, t0, duration)

\* Arguments given by position, bound in the order of the signature.
BindPositional(a) ==
    [t |-> a[1], weight |-> a[2], conc |-> a[3], dose |-> a[4], rate |-> a[5], t0 |-> a[6]]

(***************************************************************************)
(* Inputs                                                                  *)
(***************************************************************************)
\* t = np.arange(0, 20, 1.5) of the documented example.
DocGrid == Arange(Rat(0, 1), Rat(20, 1), Rat(15, 10))

\* dc.influx_step(t, 70, 0.5, 5, 0.2, 3) of the documented example.
DocCall == BindPositional(<<DocGrid, Rat(70, 1), Rat(5, 10), Rat(5, 1), Rat(2, 10), Rat(3, 1)>>)

TimeVals == {Rat(0, 1), Rat(15, 10), Rat(3, 1), Rat(5, 1), Rat(6, 1), Rat(9, 1)}

\* The ascending time arrays of up to MaxLen samples, and the documented grid.
TimeGrids ==
    {s \in UNION {[1..n -> TimeVals] : n \in 0..MaxLen} :
        \A i \in 1..(Len(s) - 1) : RLe(s[i], s[i + 1])} \cup {DocGrid}

InfluxArgs ==
    [t : TimeGrids,
     weight : {Rat(0, 1), Rat(70, 1)},
     conc : {Rat(5, 10), Rat(25, 100)},
     dose : {Rat(0, 1), Rat(2, 10), Rat(5, 1), Rat(-2, 10)},
     rate : {Rat(0, 1), Rat(2, 10), Rat(3, 1), Rat(35, 10)},
     t0 : {Rat(3, 1), Rat(5, 1)}]

AgentNames ==
    ConcKeys \cup DoseKeys \cup
    {"Gadobutrol", "GADOXETATE", "gado", "gadobutro", "butrol", "gadoxetate ",
     "gadobenade", "mangafodipir", ""}

AgentArgs == [agent : AgentNames]

FieldStrengths ==
    {Rat(4, 10), Rat(1, 1), Rat(15, 10), Rat(29, 10), Rat(3, 1), Rat(37, 10),
     Rat(4, 1), Rat(7, 1), Rat(9, 1), Rat(99, 10), Rat(117, 10)}

RelaxivityArgs ==
    [field_strength : FieldStrengths,
     tissue : {"plasma", "hepatocytes", "liver"},
     agent : {"gadoxetate", "gadobutrol", "gadobenate", "gadobenade", "ferumoxide",
              "gadopiclenol", "Gadoxetate"},
     type : {"T1", "T2", "R1"}]

T1Args ==
    [field_strength : FieldStrengths,
     tissue : {"blood", "liver", "kidney", "plasma"},
     Hct : {DefaultHct, HctFloat(Rat(40, 100)), HctFloat(Rat(0, 1)),
            HctFloat(Rat(-38, 52)), HctStr}]

Functions == {"influx_step", "ca_conc", "ca_std_dose", "relaxivity", "T1"}

ArgsOf(f) ==
    CASE f = "influx_step" -> InfluxArgs
      [] f = "ca_conc" -> AgentArgs
      [] f = "ca_std_dose" -> AgentArgs
      [] f = "relaxivity" -> RelaxivityArgs
      [] f = "T1" -> T1Args

(***************************************************************************)
(* The calls                                                               *)
(***************************************************************************)
Init ==
    /\ pc = "call"
    /\ fn \in Functions
    /\ args \in ArgsOf(fn)
    /\ result = NoResult

CallInfluxStep ==
    /\ pc = "call" /\ fn = "influx_step"
    /\ result' = influx_step(args.t, args.weight, args.conc, args.dose, args.rate, args.t0)
    /\ pc' = "done"
    /\ UNCHANGED <<fn, args>>

CallCaConc ==
    /\ pc = "call" /\ fn = "ca_conc"
    /\ result' = ca_conc(args.agent)
    /\ pc' = "done"
    /\ UNCHANGED <<fn, args>>

CallCaStdDose ==
    /\ pc = "call" /\ fn = "ca_std_dose"
    /\ result' = ca_std_dose(args.agent)
    /\ pc' = "done"
    /\ UNCHANGED <<fn, args>>

CallRelaxivity ==
    /\ pc = "call" /\ fn = "relaxivity"
    /\ result' = relaxivity(args.field_strength, args.tissue, args.agent, args.type)
    /\ pc' = "done"
    /\ UNCHANGED <<fn, args>>

CallT1 ==
    /\ pc = "call" /\ fn = "T1"
    /\ result' = T1(args.field_strength, args.tissue, args.Hct)
    /\ pc' = "done"
    /\ UNCHANGED <<fn, args>>

Next == CallInfluxStep \/ CallCaConc \/ CallCaStdDose \/ CallRelaxivity \/ CallT1

Spec == Init /\ [][Next]_vars

Done(f) == pc = "done" /\ fn = f

(***************************************************************************)
(* Properties                                                              *)
(***************************************************************************)
\* The timing validation of influx_step lets the arguments through: the
\* duration can be computed and, when dose > 0, it is not zero and exceeds the
\* smallest time step.
PassesValidation(a) ==
    /\ a.rate # Zero
    /\ RLt(Zero, a.dose) =>
          /\ Duration(a.weight, a.dose, a.rate) # Zero
          /\ Len(a.t) >= 2 => RLt(MinStep(a.t), Duration(a.weight, a.dose, a.rate))

\* C1: a call of influx_step with dose > 0, a non-zero duration and a smallest
\* time step dt >= duration fails with a ValueError and no other kind of error.
C1_StepTooCoarseIsValueError ==
    (/\ Done("influx_step")
     /\ Len(args.t) >= 2
     /\ args.rate # Zero
     /\ RLt(Zero, args.dose)
     /\ Duration(args.weight, args.dose, args.rate) # Zero
     /\ RLe(Duration(args.weight, args.dose, args.rate), MinStep(args.t)))
    => IsRaise(result, "ValueError")

\* The field strengths and values C2 lists for gadoxetate in plasma.
GadoxetatePlasma ==
    (Rat(15, 10) :> Rat(8100, 1)) @@ (Rat(3, 1) :> Rat(6400, 1))
        @@ (Rat(4, 1) :> Rat(6400, 1)) @@ (Rat(7, 1) :> Rat(6200, 1))
        @@ (Rat(9, 1) :> Rat(6100, 1))

\* C2: for plasma, gadoxetate and T1, relaxivity returns a value at each of
\* 1.5, 3.0, 4.0, 7.0 and 9.0 T (1000 times 8.1, 6.4, 6.4, 6.2, 6.1), and the
\* values do not increase with the field strength.
C2_GadoxetatePlasmaNonIncreasing ==
    (/\ Done("relaxivity")
     /\ args.tissue = "plasma" /\ args.agent = "gadoxetate" /\ args.type = "T1"
     /\ args.field_strength \in DOMAIN GadoxetatePlasma)
    => /\ result = Return(GadoxetatePlasma[args.field_strength])
       /\ \A f \in DOMAIN GadoxetatePlasma :
            RLe(args.field_strength, f) =>
               LET r == relaxivity(f, "plasma", "gadoxetate", "T1")
               IN  IsReturn(r) /\ RLe(r.value, result.value)

\* C3: for a tissue other than blood the outcome of T1 does not depend on Hct:
\* it is the value, or the "no T1 data" ValueError, of the call with the
\* default Hct, whatever Hct is.
C3_HctIgnoredOutsideBlood ==
    (Done("T1") /\ args.tissue # "blood")
    => result = T1(args.field_strength, args.tissue, DefaultHct)

\* C4, as claimed: for every non-empty ascending t, of one sample or more, and
\* inputs that pass the timing validation, influx_step returns as many flux
\* values as t has time points.
C4_SameLengthFromOneSample ==
    (Done("influx_step") /\ Len(args.t) >= 1 /\ PassesValidation(args))
    => IsReturn(result) /\ Len(result.value) = Len(args.t)

\* The example of the spec: t = 0, 1.5, ..., 19.5, weight=70, conc=0.5,
\* dose=0.2, rate=3, t0=5.
NamedExample ==
    [t |-> DocGrid, weight |-> Rat(70, 1), conc |-> Rat(5, 10), dose |-> Rat(2, 10),
     rate |-> Rat(3, 1), t0 |-> Rat(5, 1)]

\* C5: when influx_step returns, the value at index i is conc*rate if
\* t0 < t[i] < t0 + duration and 0 otherwise; a sample equal to t0 or to
\* t0 + duration has flux 0; in the example of the spec the non-zero entries
\* are exactly the samples 6, 7.5 and 9, each 1.5.
C5_FluxInsideOpenInterval ==
    (Done("influx_step") /\ IsReturn(result))
    => LET end == RAdd(args.t0, Duration(args.weight, args.dose, args.rate))
       IN  /\ DOMAIN result.value = DOMAIN args.t
           /\ \A i \in DOMAIN args.t :
                /\ (RLt(args.t0, args.t[i]) /\ RLt(args.t[i], end))
                      => result.value[i] = RMul(args.conc, args.rate)
                /\ ~(RLt(args.t0, args.t[i]) /\ RLt(args.t[i], end))
                      => result.value[i] = Zero
                /\ (args.t[i] = args.t0 \/ args.t[i] = end) => result.value[i] = Zero
           /\ args = NamedExample =>
                /\ {i \in DOMAIN args.t : result.value[i] # Zero} = {5, 6, 7}
                /\ <<args.t[5], args.t[6], args.t[7]>> = <<Rat(6, 1), Rat(15, 2), Rat(9, 1)>>
                /\ \A i \in {5, 6, 7} : result.value[i] = Rat(3, 2)

\* A returned flux with a sample at t0, a sample at t0 + duration and a
\* non-zero sample between them.
C5_Witness ==
    /\ Done("influx_step")
    /\ IsReturn(result)
    /\ \E i, j, k \in DOMAIN args.t :
          /\ args.t[i] = args.t0
          /\ result.value[j] # Zero
          /\ args.t[k] = RAdd(args.t0, Duration(args.weight, args.dose, args.rate))
          /\ result.value[i] = Zero /\ result.value[k] = Zero

\* array([0. , 0. , 0. , 0. , 1.5, 1.5, 1.5, 0. , ..., 0. ]) of the documented example.
DocOutput == [i \in 1..14 |-> IF i \in {5, 6, 7} THEN Rat(15, 10) ELSE Zero]

\* C6: the documented call influx_step(t, 70, 0.5, 5, 0.2, 3), arguments by
\* position, returns 1.5 at the samples 6, 7.5 and 9 and 0 at the others.
C6_DocumentedExampleOutput ==
    (Done("influx_step") /\ args = DocCall) => result = Return(DocOutput)

\* Strings that differ from a key only by case, or are a prefix or a
\* substring of a key.
NearMisses == {"Gadobutrol", "GADOXETATE", "gado", "gadobutro", "butrol"}

\* C7: ca_conc and ca_std_dose return a strictly positive number exactly when
\* the agent equals a key of their table, and otherwise fail with a ValueError
\* whose message carries the agent; a near miss of a key always fails and no
\* default is returned.
C7_ExactKeyOrValueError ==
    /\ Done("ca_conc") =>
          /\ args.agent \in ConcKeys => IsReturn(result) /\ result.value.num > 0
          /\ args.agent \notin ConcKeys =>
                result = Raise("ValueError",
                               "No concentration data for contrast agent " \o args.agent)
          /\ args.agent \in NearMisses => IsRaise(result, "ValueError")
    /\ Done("ca_std_dose") =>
          /\ args.agent \in DoseKeys => IsReturn(result) /\ result.value.num > 0
          /\ args.agent \notin DoseKeys =>
                result = Raise("ValueError",
                               "No dosage data for contrast agent " \o args.agent)
          /\ args.agent \in NearMisses => IsRaise(result, "ValueError")

C7_Witness ==
    /\ Done("ca_conc")
    /\ args.agent = "Gadobutrol"
    /\ result = Raise("ValueError", "No concentration data for contrast agent Gadobutrol")

C10_KeySetsDiffer ==
    (Done("ca_conc") \/ Done("ca_std_dose")) =>
       \E a \in AgentNames :
          \/ IsReturn(ca_conc(a)) /\ IsRaise(ca_std_dose(a), "ValueError")
          \/ IsRaise(ca_conc(a), "ValueError") /\ IsReturn(ca_std_dose(a))

\* C10, amended: ca_conc and ca_std_dose accept the same agent names; an agent
\* either gets a value from both or a ValueError from both.
C10_SameAgentsAccepted ==
    /\ Done("ca_conc") =>
          /\ IsReturn(result) <=> IsReturn(ca_std_dose(args.agent))
          /\ IsRaise(result, "ValueError") <=> IsRaise(ca_std_dose(args.agent), "ValueError")
    /\ Done("ca_std_dose") =>
          /\ IsReturn(result) <=> IsReturn(ca_conc(args.agent))
          /\ IsRaise(result, "ValueError") <=> IsRaise(ca_conc(args.agent), "ValueError")

C10_Witness ==
    /\ Done("ca_std_dose")
    /\ args.agent = "gadopiclenol"
    /\ IsReturn(result)
    /\ IsReturn(ca_conc(args.agent))

=============================================================================
